---- MODULE Spec2Model ----
(***************************************************************************)
(* Model of cc_simple_server/server.py: the four task handlers            *)
(* (create_task, get_tasks, update_task, delete_task) running as request  *)
(* handlers over one SQLite table `tasks`.                                 *)
(*                                                                         *)
(* Each handler is a sequence of steps, one per statement that talks to   *)
(* the database, so that requests served by different workers over the    *)
(* same database file interleave between statements.  A write statement   *)
(* opens the implicit transaction of the connection and holds the store's *)
(* write lock until commit; its effect becomes visible to the other       *)
(* connections at commit.  Any execute or commit may raise a storage      *)
(* error.                                                                  *)
(***************************************************************************)
EXTENDS Integers, Sequences, FiniteSets, TLC

(* ------------------------------ bounds -------------------------------- *)
\* number of INSERTs the model lets commit
MaxCreates == 2
\* number of requests the model lets start
MaxRequests == 4

\* the worker slots that serve requests concurrently
Handlers == {"h1", "h2"}
NoHandler == "none"

\* Python None / SQL NULL
PyNone == "<None>"

\* request bodies (TaskCreate): title, optional description, completed
Payloads ==
    { [title |-> "Buy milk", description |-> "2%",   completed |-> FALSE],
      [title |-> "2%",       description |-> PyNone, completed |-> TRUE] }

\* task_id path parameters the clients send
TaskIds == 1 .. (MaxCreates + 1)

VARIABLES
    tasks,      \* committed rows of table tasks, in rowid order
    seq,        \* sqlite_sequence: largest rowid ever committed for tasks
    writer,     \* handler whose connection holds the write lock, or NoHandler
    pendTasks,  \* the writer's uncommitted image of the table
    pendSeq,    \* the writer's uncommitted sqlite_sequence
    pc,         \* per handler: position in the handler's code
    op,         \* per handler: which route is being served
    task_id,    \* per handler: path parameter
    task_data,  \* per handler: request body
    conn,       \* per handler: TRUE while its connection is open
    lastrowid,  \* per handler: cursor.lastrowid
    rowcount,   \* per handler: rows matched by its last UPDATE/DELETE
    response,   \* per handler: what the client receives
    nReq,       \* requests started so far
    \* ---- history (observations of the run, never read by the handlers)
    createLog,  \* per successful create, in order of return: the id returned and
                \* the ids already deleted at that moment
    createdVal, \* id -> body passed to the create that returned it
    touches,    \* id -> number of UPDATE/DELETE statements issued on it (capped at 2)
    sole,       \* per handler: its UPDATE was the first statement issued on the id
    updRet,     \* id -> Task returned by the update whose statement was the first on it
    deleted,    \* ids for which a delete has returned success
    late        \* per handler: its request was issued after a delete of its id returned

vars == << tasks, seq, writer, pendTasks, pendSeq, pc, op, task_id, task_data,
           conn, lastrowid, rowcount, response, nReq,
           createLog, createdVal, touches, sole, updRet, deleted, late >>

dbVars == << tasks, seq >>
txVars == << writer, pendTasks, pendSeq >>
reqVars == << op, task_id, task_data >>
histVars == << createLog, createdVal, touches, sole, updRet, deleted, late >>

Ended == {"idle", "done", "notfound", "failed"}

(* --------------------------- pure helpers ----------------------------- *)

\* sqlite3 binds a Python bool as INTEGER 1 / 0
AdaptBool(b) == IF b THEN 1 ELSE 0

\* the BOOLEAN column read back is an integer; TaskRead.completed: bool coerces it
BoolOfInt(n) == n # 0

\* TaskRead(id=..., title=..., description=..., completed=...)
TaskRead(id, title, description, completed) ==
    [id |-> id, title |-> title, description |-> description, completed |-> completed]

\* ids of the rows of a table image
RowIds(rows) == { rows[k][1] : k \in 1 .. Len(rows) }

SetMax(S) == CHOOSE m \in S : \A x \in S : x <= m

\* rowid given to an INSERT into an INTEGER PRIMARY KEY AUTOINCREMENT table
NextRowId(rows, s) == SetMax(RowIds(rows) \cup {s}) + 1


\* number of rows a WHERE id = ? clause matches
RowsMatching(rows, id) == Cardinality({ k \in 1 .. Len(rows) : rows[k][1] = id })

\* INSERT INTO tasks (title, description, completed) VALUES (?, ?, ?)
InsertRow(rows, s, d) ==
    Append(rows, << NextRowId(rows, s), d.title, d.description, AdaptBool(d.completed) >>)

\* SELECT * FROM tasks WHERE id = ? ; fetchone(): the row, or <<>> for None
SelectAny(rows, id) == IF Len(rows) = 0 THEN << >> ELSE rows[1]
SelectById(rows, id) ==
    IF RowsMatching(rows, id) = 0 THEN << >>
    ELSE rows[CHOOSE k \in 1 .. Len(rows) :
                  /\ rows[k][1] = id
                  /\ \A j \in 1 .. (k - 1) : rows[j][1] # id]

\* UPDATE tasks SET title = ?, description = ?, completed = ? WHERE id = ?
UpdateRowsKeepDescription(rows, id, d) ==
    [k \in 1 .. Len(rows) |->
        IF rows[k][1] = id
        THEN << rows[k][1], d.title, rows[k][3], AdaptBool(d.completed) >>
        ELSE rows[k]]
UpdateRows(rows, id, d) ==
    [k \in 1 .. Len(rows) |->
        IF rows[k][1] = id
        THEN << rows[k][1], d.title, d.description, AdaptBool(d.completed) >>
        ELSE rows[k]]

\* DELETE FROM tasks WHERE id = ?
KeepOthers(id, r) == r[1] # id
DeleteRowsUpTo(rows, id) == SelectSeq(rows, LAMBDA r : r[1] > id)
DeleteRows(rows, id) == SelectSeq(rows, LAMBDA r : KeepOthers(id, r))

\* if not existing_task   (update_task)
update_task_never_missing(existing) == FALSE
update_task_missing(existing) == existing = << >>

\* if not existing_task   (delete_task)
delete_task_never_missing(existing) == FALSE
delete_task_missing(existing) == existing = << >>

\* task_id = cursor.lastrowid
create_task_id_by_count(p) == Len(pendTasks)
create_task_id(p) == lastrowid[p]

\* return TaskRead(id=task_id, title=task_data.title, ...)   (create_task)
create_task_result_no_description(id, d) == TaskRead(id, d.title, PyNone, d.completed)
create_task_result(id, d) == TaskRead(id, d.title, d.description, d.completed)

\* TaskRead(id=task[0], title=task[1], description=task[2], completed=task[3])
RowToTaskSwapped(task) == TaskRead(task[1], task[3], task[2], BoolOfInt(task[4]))
RowToTask(task) == TaskRead(task[1], task[2], task[3], BoolOfInt(task[4]))

\* return [TaskRead(...) for task in tasks]
get_tasks_result(rows) == [k \in 1 .. Len(rows) |-> RowToTask(rows[k])]

\* return TaskRead(id=task_id, title=task_data.title, ...)   (update_task)
update_task_result(id, d) == TaskRead(id, d.title, d.description, d.completed)

\* return {"message": f"Task {task_id} deleted successfully"}
delete_task_result(id) == [message |-> << "Task", id, "deleted successfully" >>]

\* raise HTTPException(status_code=404, detail="Task not found")
NotFound == [status |-> 404, body |-> [detail |-> "Task not found"]]

Ok(body) == [status |-> 200, body |-> body]

\* an exception other than HTTPException leaves the handler
ServerError == [status |-> 500, body |-> "Internal Server Error"]

NoResponse == [status |-> 0, body |-> "none"]

\* the request body a handler holds while it serves no request
NoData == [title |-> "", description |-> PyNone, completed |-> FALSE]

\* history entry of an id no update has returned for
NoTask == TaskRead(0, "", PyNone, FALSE)

Bump(n) == IF n < 2 THEN n + 1 ELSE 2

(* ------------------------------- Init --------------------------------- *)

Init ==
    /\ tasks = << >>
    /\ seq = 0
    /\ writer = NoHandler
    /\ pendTasks = << >>
    /\ pendSeq = 0
    /\ pc = [p \in Handlers |-> "idle"]
    /\ op = [p \in Handlers |-> "none"]
    /\ task_id = [p \in Handlers |-> 0]
    /\ task_data = [p \in Handlers |-> NoData]
    /\ conn = [p \in Handlers |-> FALSE]
    /\ lastrowid = [p \in Handlers |-> 0]
    /\ rowcount = [p \in Handlers |-> 0]
    /\ response = [p \in Handlers |-> NoResponse]
    /\ nReq = 0
    /\ createLog = << >>
    /\ createdVal = [i \in TaskIds |-> NoData]
    /\ touches = [i \in TaskIds |-> 0]
    /\ sole = [p \in Handlers |-> FALSE]
    /\ updRet = [i \in TaskIds |-> NoTask]
    /\ deleted = {}
    /\ late = [p \in Handlers |-> FALSE]

(* --------------------------- request entry ---------------------------- *)

\* the handler returns or raises: its locals (task_data, cursor) are gone
Leave(p) ==
    /\ task_data' = [task_data EXCEPT ![p] = NoData]
    /\ lastrowid' = [lastrowid EXCEPT ![p] = 0]
    /\ UNCHANGED << op, task_id >>

\* creates that are being served
CreatesInFlight == Cardinality({ q \in Handlers : op[q] = "create" /\ pc[q] \notin Ended })

\* a request is dispatched to handler p, which opens its connection:
\* conn = get_db_connection(); cursor = conn.cursor()
Begin(p, o, i, d, first) ==
    /\ pc[p] \in Ended
    /\ ~conn[p]
    /\ nReq < MaxRequests
    /\ nReq' = nReq + 1
    /\ pc' = [pc EXCEPT ![p] = first]
    /\ op' = [op EXCEPT ![p] = o]
    /\ task_id' = [task_id EXCEPT ![p] = i]
    /\ task_data' = [task_data EXCEPT ![p] = d]
    /\ conn' = [conn EXCEPT ![p] = TRUE]
    /\ lastrowid' = [lastrowid EXCEPT ![p] = 0]
    /\ rowcount' = [rowcount EXCEPT ![p] = 0]
    /\ response' = [response EXCEPT ![p] = NoResponse]
    /\ sole' = [sole EXCEPT ![p] = FALSE]
    /\ late' = [late EXCEPT ![p] = (i \in deleted)]
    /\ UNCHANGED << dbVars, txVars, createLog, createdVal, touches, updRet, deleted >>

(* ----------------------------- create_task ---------------------------- *)

create_task_begin(p, d) ==
    /\ seq + CreatesInFlight < MaxCreates
    /\ Begin(p, "create", 0, d, "insert")

\* cursor.execute("INSERT ...")
create_task_insert(p) ==
    /\ pc[p] = "insert"
    /\ writer = NoHandler
    /\ writer' = p
    /\ pendTasks' = InsertRow(tasks, seq, task_data[p])
    /\ pendSeq' = NextRowId(tasks, seq)
    /\ lastrowid' = [lastrowid EXCEPT ![p] = NextRowId(tasks, seq)]
    /\ pc' = [pc EXCEPT ![p] = "commit"]
    /\ UNCHANGED << dbVars, reqVars, conn, rowcount, response, nReq, histVars >>

\* conn.commit(); task_id = cursor.lastrowid; conn.close(); return TaskRead(...)
create_task_commit(p) ==
    /\ pc[p] = "commit"
    /\ op[p] = "create"
    /\ writer = p
    /\ tasks' = pendTasks
    /\ seq' = pendSeq
    /\ writer' = NoHandler
    /\ pendTasks' = << >>
    /\ pendSeq' = 0
    /\ conn' = [conn EXCEPT ![p] = FALSE]
    /\ response' = [response EXCEPT
                      ![p] = Ok(create_task_result(create_task_id(p), task_data[p]))]
    /\ pc' = [pc EXCEPT ![p] = "done"]
    /\ createLog' = Append(createLog, [id |-> create_task_id(p), gone |-> deleted])
    /\ createdVal' = IF create_task_id(p) \in TaskIds
                     THEN [createdVal EXCEPT ![create_task_id(p)] = task_data[p]]
                     ELSE createdVal
    /\ Leave(p)
    /\ UNCHANGED << rowcount, nReq, touches, sole, updRet, deleted, late >>

(* ------------------------------ get_tasks ----------------------------- *)

get_tasks_begin(p) ==
    Begin(p, "list", 0, NoData, "select")

\* cursor.execute("SELECT * FROM tasks"); tasks = cursor.fetchall(); conn.close(); return [...]
get_tasks_select(p) ==
    /\ pc[p] = "select"
    /\ conn' = [conn EXCEPT ![p] = FALSE]
    /\ response' = [response EXCEPT ![p] = Ok(get_tasks_result(tasks))]
    /\ pc' = [pc EXCEPT ![p] = "done"]
    /\ Leave(p)
    /\ UNCHANGED << dbVars, txVars, rowcount, nReq, histVars >>

(* ----------------------------- update_task ---------------------------- *)

update_task_begin(p, i, d) ==
    Begin(p, "update", i, d, "check")

\* SELECT ... WHERE id = ?; fetchone(); if not existing_task: conn.close(); raise 404
update_task_check(p) ==
    /\ pc[p] = "check"
    /\ op[p] = "update"
    /\ IF update_task_missing(SelectById(tasks, task_id[p]))
       THEN /\ conn' = [conn EXCEPT ![p] = FALSE]
            /\ response' = [response EXCEPT ![p] = NotFound]
            /\ pc' = [pc EXCEPT ![p] = "notfound"]
            /\ Leave(p)
       ELSE /\ pc' = [pc EXCEPT ![p] = "write"]
            /\ UNCHANGED << conn, response, reqVars, lastrowid >>
    /\ UNCHANGED << dbVars, txVars, rowcount, nReq, histVars >>

\* cursor.execute("UPDATE tasks SET ... WHERE id = ?")
update_task_execute(p) ==
    /\ pc[p] = "write"
    /\ op[p] = "update"
    /\ writer = NoHandler
    /\ writer' = p
    /\ pendTasks' = UpdateRows(tasks, task_id[p], task_data[p])
    /\ pendSeq' = seq
    /\ rowcount' = [rowcount EXCEPT ![p] = RowsMatching(tasks, task_id[p])]
    /\ pc' = [pc EXCEPT ![p] = "commit"]
    /\ touches' = [touches EXCEPT ![task_id[p]] = Bump(@)]
    /\ sole' = [sole EXCEPT ![p] = (touches[task_id[p]] = 0)]
    /\ UNCHANGED << dbVars, reqVars, conn, lastrowid, response, nReq,
                    createLog, createdVal, updRet, deleted, late >>

\* conn.commit(); conn.close(); return TaskRead(id=task_id, ...)
update_task_commit(p) ==
    /\ pc[p] = "commit"
    /\ op[p] = "update"
    /\ writer = p
    /\ tasks' = pendTasks
    /\ seq' = pendSeq
    /\ writer' = NoHandler
    /\ pendTasks' = << >>
    /\ pendSeq' = 0
    /\ conn' = [conn EXCEPT ![p] = FALSE]
    /\ response' = [response EXCEPT
                      ![p] = Ok(update_task_result(task_id[p], task_data[p]))]
    /\ pc' = [pc EXCEPT ![p] = "done"]
    /\ updRet' = IF sole[p]
                 THEN [updRet EXCEPT
                         ![task_id[p]] = update_task_result(task_id[p], task_data[p])]
                 ELSE updRet
    /\ Leave(p)
    /\ UNCHANGED << rowcount, nReq,
                    createLog, createdVal, touches, sole, deleted, late >>

(* ----------------------------- delete_task ---------------------------- *)

delete_task_begin(p, i) ==
    Begin(p, "delete", i, NoData, "check")

\* SELECT ... WHERE id = ?; fetchone(); if not existing_task: conn.close(); raise 404
delete_task_check(p) ==
    /\ pc[p] = "check"
    /\ op[p] = "delete"
    /\ IF delete_task_missing(SelectById(tasks, task_id[p]))
       THEN /\ conn' = [conn EXCEPT ![p] = FALSE]
            /\ response' = [response EXCEPT ![p] = NotFound]
            /\ pc' = [pc EXCEPT ![p] = "notfound"]
            /\ Leave(p)
       ELSE /\ pc' = [pc EXCEPT ![p] = "write"]
            /\ UNCHANGED << conn, response, reqVars, lastrowid >>
    /\ UNCHANGED << dbVars, txVars, rowcount, nReq, histVars >>

\* cursor.execute("DELETE FROM tasks WHERE id = ?")
delete_task_execute(p) ==
    /\ pc[p] = "write"
    /\ op[p] = "delete"
    /\ writer = NoHandler
    /\ writer' = p
    /\ pendTasks' = DeleteRows(tasks, task_id[p])
    /\ pendSeq' = seq
    /\ rowcount' = [rowcount EXCEPT ![p] = RowsMatching(tasks, task_id[p])]
    /\ pc' = [pc EXCEPT ![p] = "commit"]
    /\ touches' = [touches EXCEPT ![task_id[p]] = Bump(@)]
    /\ UNCHANGED << dbVars, reqVars, conn, lastrowid, response, nReq,
                    createLog, createdVal, sole, updRet, deleted, late >>

\* conn.commit(); conn.close(); return {"message": ...}
delete_task_commit(p) ==
    /\ pc[p] = "commit"
    /\ op[p] = "delete"
    /\ writer = p
    /\ tasks' = pendTasks
    /\ seq' = pendSeq
    /\ writer' = NoHandler
    /\ pendTasks' = << >>
    /\ pendSeq' = 0
    /\ conn' = [conn EXCEPT ![p] = FALSE]
    /\ response' = [response EXCEPT ![p] = Ok(delete_task_result(task_id[p]))]
    /\ pc' = [pc EXCEPT ![p] = "done"]
    /\ deleted' = deleted \cup {task_id[p]}
    /\ Leave(p)
    /\ UNCHANGED << rowcount, nReq,
                    createLog, createdVal, touches, sole, updRet, late >>

(* --------------------------- storage errors --------------------------- *)

\* cursor.execute(...) or conn.commit() raises (I/O error, database is locked):
\* the exception leaves the handler; no handler has a try/finally, so
\* conn.close() is not reached.  A failed commit leaves the transaction open.
StorageError(p) ==
    /\ pc[p] \in {"insert", "select", "check", "write", "commit"}
    /\ pc' = [pc EXCEPT ![p] = "failed"]
    /\ response' = [response EXCEPT ![p] = ServerError]
    /\ Leave(p)
    /\ UNCHANGED << dbVars, txVars, conn, rowcount, nReq, histVars >>

\* the connection object of a handler that raised is reclaimed by the
\* interpreter some time after the handler has ended: its open transaction is
\* rolled back and the connection closed
Reclaim(p) ==
    /\ pc[p] = "failed"
    /\ conn[p]
    /\ conn' = [conn EXCEPT ![p] = FALSE]
    /\ writer' = IF writer = p THEN NoHandler ELSE writer
    /\ pendTasks' = IF writer = p THEN << >> ELSE pendTasks
    /\ pendSeq' = IF writer = p THEN 0 ELSE pendSeq
    /\ UNCHANGED << dbVars, pc, reqVars, lastrowid, rowcount, response, nReq, histVars >>

(* ------------------------------- Next --------------------------------- *)

Next ==
    \E p \in Handlers :
        \/ \E d \in Payloads : create_task_begin(p, d)
        \/ create_task_insert(p)
        \/ create_task_commit(p)
        \/ get_tasks_begin(p)
        \/ get_tasks_select(p)
        \/ \E i \in TaskIds, d \in Payloads : update_task_begin(p, i, d)
        \/ update_task_check(p)
        \/ update_task_execute(p)
        \/ update_task_commit(p)
        \/ \E i \in TaskIds : delete_task_begin(p, i)
        \/ delete_task_check(p)
        \/ delete_task_execute(p)
        \/ delete_task_commit(p)
        \/ StorageError(p)
        \/ Reclaim(p)

Spec == Init /\ [][Next]_vars


(* ============================== claims ================================ *)

\* steps of handler p, recognised by its position before and after
CreateReturns(p) == op[p] = "create" /\ pc[p] = "commit" /\ pc'[p] = "done"
ListReturns(p)   == op[p] = "list"   /\ pc[p] = "select" /\ pc'[p] = "done"
UpdateReturns(p) == op[p] = "update" /\ pc[p] = "commit" /\ pc'[p] = "done"
DeleteReturns(p) == op[p] = "delete" /\ pc[p] = "commit" /\ pc'[p] = "done"
\* the existence check of p has run (the SELECT did not raise)
CheckRan(p, o)   == op[p] = o /\ pc[p] = "check" /\ pc'[p] \notin {"check", "failed"}

\* membership and multiplicity of a Task in a list response
Holds(body, t) == \E k \in 1 .. Len(body) : body[k] = t
CountId(body, i) == Cardinality({ k \in 1 .. Len(body) : body[k].id = i })

\* C1: a create that succeeds returns a Task whose title, description and
\* completed are the ones of the request body, and whose id is the id of no
\* row that was in the store when the row was inserted, of no other row of
\* the store when it returns, and of no Task an earlier create returned.
C1_CreateReturnsInputWithFreshId ==
    [][ \A p \in Handlers : CreateReturns(p) =>
          LET t == response'[p].body IN
            /\ response'[p].status = 200
            /\ t.title = task_data[p].title
            /\ t.description = task_data[p].description
            /\ t.completed = task_data[p].completed
            /\ t.id \notin RowIds(tasks)
            /\ RowsMatching(tasks', t.id) = 1
            /\ \A k \in 1 .. Len(createLog) : createLog[k].id # t.id ]_vars

\* a second create has returned while the store holds the first task
C1_Witness ==
    /\ Len(createLog) = 2
    /\ Len(tasks) = 2
    /\ \E p \in Handlers :
         /\ op[p] = "create" /\ pc[p] = "done"
         /\ response[p].status = 200
         /\ response[p].body.id = createLog[2].id
         /\ response[p].body.description # PyNone

\* C2: a listAll whose SELECT runs after create returned id i, and before any
\* UPDATE or DELETE statement on i was issued, returns a sequence that holds
\* the Task with id i and the title, description and completed given to create.
C2_ReadAfterWrite ==
    [][ \A p \in Handlers : ListReturns(p) =>
          \A i \in TaskIds :
            (createdVal[i] # NoData /\ touches[i] = 0) =>
               /\ response'[p].status = 200
               /\ Holds(response'[p].body,
                        [id |-> i,
                         title |-> createdVal[i].title,
                         description |-> createdVal[i].description,
                         completed |-> createdVal[i].completed]) ]_vars

\* a list has returned a created, untouched task whose completed flag is set
C2_Witness ==
    \E p \in Handlers, i \in TaskIds :
        /\ op[p] = "list" /\ pc[p] = "done" /\ response[p].status = 200
        /\ createdVal[i] # NoData /\ touches[i] = 0
        /\ createdVal[i].completed
        /\ \E k \in 1 .. Len(response[p].body) :
             /\ response[p].body[k].id = i
             /\ response[p].body[k].completed = TRUE
             /\ response[p].body[k].description = createdVal[i].description

\* C3: when the existence check of update(id, ...) finds no row with that id,
\* the request ends with 404 "Task not found" (it never reaches the UPDATE)
\* and the step leaves the stored rows and the id sequence as they were.
C3_UpdateMissingIsNotFound ==
    [][ \A p \in Handlers :
          (CheckRan(p, "update") /\ RowsMatching(tasks, task_id[p]) = 0) =>
             /\ pc'[p] = "notfound"
             /\ response'[p] = NotFound
             /\ response'[p].status = 404
             /\ response'[p].body.detail = "Task not found"
             /\ tasks' = tasks
             /\ seq' = seq ]_vars

\* an update of an absent id was answered 404 while the store holds a task
C3_Witness ==
    \E p \in Handlers :
        /\ op[p] = "update" /\ pc[p] = "notfound"
        /\ response[p] = NotFound
        /\ Len(tasks) >= 1
        /\ RowsMatching(tasks, task_id[p]) = 0

\* C4: when the existence check of delete(id) finds no row with that id (never
\* created, or already deleted), the request ends with 404 "Task not found"
\* (it never reaches the DELETE) and the step leaves the stored rows unchanged.
C4_DeleteMissingIsNotFound ==
    [][ \A p \in Handlers :
          (CheckRan(p, "delete") /\ RowsMatching(tasks, task_id[p]) = 0) =>
             /\ pc'[p] = "notfound"
             /\ response'[p] = NotFound
             /\ response'[p].status = 404
             /\ response'[p].body.detail = "Task not found"
             /\ tasks' = tasks ]_vars

\* a delete of an already deleted id was answered 404 while the store holds a task
C4_Witness ==
    \E p \in Handlers :
        /\ op[p] = "delete" /\ pc[p] = "notfound"
        /\ response[p] = NotFound
        /\ late[p]
        /\ Len(tasks) >= 1

\* C5: once delete(id) has returned success, no row with that id is in the
\* store again, and every update(id, ...) or delete(id) issued after that
\* return never reaches its write: it ends with 404 "Task not found" (or with
\* a storage error).
C5_DeletedStaysDeleted ==
    /\ \A i \in deleted : RowsMatching(tasks, i) = 0
    /\ \A p \in Handlers :
         (late[p] /\ op[p] \in {"update", "delete"}) =>
            /\ pc[p] \in {"check", "notfound", "failed"}
            /\ pc[p] = "notfound" => response[p] = NotFound

\* an update issued after the delete of its id returned was answered 404,
\* with another task still in the store
C5_Witness ==
    \E p \in Handlers :
        /\ late[p] /\ op[p] = "update" /\ pc[p] = "notfound"
        /\ task_id[p] \in deleted
        /\ Len(tasks) >= 1

\* C6: the Task an update returns carries the id of the request and the body's
\* title, description and completed; and when that update's statement is the
\* only UPDATE or DELETE issued on id i so far, a listAll that runs after the
\* update returned holds exactly one Task with id i, equal to the returned one.
C6_UpdateRoundTrip ==
    [][ \A p \in Handlers :
          /\ UpdateReturns(p) =>
               response'[p] = Ok([id |-> task_id[p],
                                  title |-> task_data[p].title,
                                  description |-> task_data[p].description,
                                  completed |-> task_data[p].completed])
          /\ ListReturns(p) =>
               \A i \in TaskIds :
                 (createdVal[i] # NoData /\ touches[i] = 1 /\ updRet[i] # NoTask) =>
                    /\ CountId(response'[p].body, i) = 1
                    /\ Holds(response'[p].body, updRet[i]) ]_vars

\* a list has read back an updated task whose description and completed flag
\* differ from the ones given to create
C6_Witness ==
    \E p \in Handlers, i \in TaskIds :
        /\ op[p] = "list" /\ pc[p] = "done" /\ response[p].status = 200
        /\ createdVal[i] # NoData /\ touches[i] = 1 /\ updRet[i] # NoTask
        /\ updRet[i].description # createdVal[i].description
        /\ updRet[i].completed # createdVal[i].completed
        /\ Holds(response[p].body, updRet[i])

\* C7: the ids returned by creates are pairwise different, deleted tasks'
\* ids included.
C7_IdNeverReused ==
    \A j, k \in 1 .. Len(createLog) :
        j < k => createLog[j].id # createLog[k].id

\* a create has returned after the task with the largest id so far was deleted
C7_Witness ==
    \E k \in 1 .. Len(createLog) :
        /\ k > 1
        /\ createLog[k - 1].id \in createLog[k].gone
        /\ \A j \in 1 .. (k - 1) : createLog[j].id <= createLog[k - 1].id

\* C8: a handler that has ended (returned, raised 404, or raised a storage
\* error) has closed its connection.
C8_ConnectionReleased ==
    \A p \in Handlers : pc[p] \in {"done", "notfound", "failed"} => ~conn[p]

\* C9: an update or delete that returns success applied its UPDATE or DELETE
\* to the row: the row existed when the statement ran.
C9_CheckAndWriteAtomic ==
    \A p \in Handlers :
        (op[p] \in {"update", "delete"} /\ pc[p] = "done") => rowcount[p] = 1

\* C10: the commit of an update keeps the number of rows and every row's id,
\* and changes no row with another id; the commit of a delete keeps every row
\* with another id as it was and adds none; no step of a listAll changes the
\* store.
C10_Frame ==
    [][ \A p \in Handlers :
          /\ UpdateReturns(p) =>
               /\ Len(tasks') = Len(tasks)
               /\ seq' = seq
               /\ \A k \in 1 .. Len(tasks) :
                    /\ tasks'[k][1] = tasks[k][1]
                    /\ tasks[k][1] # task_id[p] => tasks'[k] = tasks[k]
          /\ DeleteReturns(p) =>
               /\ seq' = seq
               /\ \A k \in 1 .. Len(tasks) :
                    tasks[k][1] # task_id[p] =>
                       \E j \in 1 .. Len(tasks') : tasks'[j] = tasks[k]
               /\ \A j \in 1 .. Len(tasks') :
                    \E k \in 1 .. Len(tasks) : tasks[k] = tasks'[j]
          /\ (op[p] = "list" /\ pc'[p] # pc[p]) =>
               /\ tasks' = tasks
               /\ seq' = seq ]_vars

\* the task with id 2 was deleted while the task with id 1 stays in the store
C10_Witness ==
    \E p \in Handlers :
        /\ op[p] = "delete" /\ pc[p] = "done"
        /\ task_id[p] = 2 /\ rowcount[p] = 1
        /\ RowsMatching(tasks, 1) = 1

====
